---- MODULE Spec2Model ----
(***************************************************************************)
(* autorefresh.py: one file served over HTTP, and an event stream          *)
(* (/refresh) on which every connected client is told to reload when       *)
(* SIGHUP arrives.                                                         *)
(*                                                                         *)
(* Shared state: refreshId, guarded by refreshLock / refreshCond.          *)
(* Threads: the main thread, on which CPython runs handleSighup (possibly  *)
(* nested: a signal that arrives while a handler frame is running or is    *)
(* blocked on the lock starts another frame on top of it), and one thread  *)
(* per accepted connection running FileHandler.do_GET.                     *)
(*                                                                         *)
(* refreshCond.wait(timeout) is modelled by what threading.Condition does: *)
(* register a waiter and release the lock; block until the waiter is       *)
(* released by notify_all (True) or the timeout expires (False); then      *)
(* re-acquire the lock, and only then return.                              *)
(***************************************************************************)
EXTENDS Integers, Sequences, FiniteSets, TLC

\* ---------------------------------------------------------------- bounds
MaxAdvances == 1       \* SIGHUPs that reach the increment in one behaviour
MaxNest == 2           \* handleSighup frames stacked on the main thread
MaxBack == 1           \* initial states start up to MaxBack below the modulus
MaxCount == 2          \* the history counters saturate here ("or more")

\* ------------------------------------------------------ program constants
REFRESH_ID_MAX == 65536

\* The connection threads modelled.
Handlers == {"h1", "h2"}

\* Request paths tried: the three routes, and near misses of them.
Paths == {"/refresh", "/", "/file", "/refresh/", "/file?v=1", "/nope"}

\* Generation values at which a behaviour starts: 0 is the value after
\* construction; REFRESH_ID_MAX - k is the value after that many SIGHUPs
\* were handled with no connection open.
StartIds == {0} \cup {REFRESH_ID_MAX - k : k \in 1..MaxBack}

VARIABLES
    refreshId,   \* the generation counter
    lockOwner,   \* refreshLock: who holds it (Free, MainOwns, Owns(h))
    waiters,     \* refreshCond._waiters: threads with a registered waiter
    notified,    \* threads whose waiter has been released by notify_all
    sigStack,    \* handleSighup frames on the main thread, innermost last
    pc,          \* position of each connection thread
    path,        \* self.path of the request
    peerGone,    \* the client end of the connection is closed
    lastMsgId,   \* local of handleRefresh
    seenId,      \* value of refreshId read by the last loop test (line 164)
    gotit,       \* result of the waiter acquire inside Condition.wait
    isTimeout,   \* local of handleRefresh
    msg,         \* local of handleRefresh: the frame about to be written
    lastSent,    \* history: the frame written last on the connection
    lastAdv,     \* history: advW of the iteration that wrote it
    nAdv,        \* history: increments done in this behaviour
    priorAdv,    \* history: increments completed before the first state
    advW,        \* history: advances since the capture, up to the exit
    gap,         \* history: advances since the last exit
    absorbed,    \* history: gap when lastMsgId was captured
    firedAt,     \* history: advW when the timeout expired, -1 if it did not
    pending,     \* history: an advance not yet followed by a refresh frame
    credit       \* history: advances since the first capture, minus
                 \*          refresh frames written

progVars == <<refreshId, lockOwner, waiters, notified, sigStack, pc, path,
              peerGone, lastMsgId, seenId, gotit, isTimeout, msg>>
histVars == <<lastSent, lastAdv, nAdv, priorAdv, advW, gap, absorbed,
              firedAt, pending, credit>>
vars == <<progVars, histVars>>

\* ------------------------------------------------------------ pure parts

\* '{}'.format(n) for a non-negative integer: its decimal digits.
RECURSIVE FormatInt(_)
FormatInt(n) == IF n < 10 THEN <<n>> ELSE FormatInt(n \div 10) \o <<n % 10>>

\* A first frame that is a keepalive comment.
InitialMsgAsKeepalive == [kind |-> "comment", data |-> FormatInt(0)]

\* b'data:\n\n'
InitialMsg == [kind |-> "data", data |-> <<>>]

\* ': {}\n\n'.format(id)
KeepaliveMsg(id) == [kind |-> "comment", data |-> FormatInt(id)]

\* 'event: refresh\ndata: {}\n\n'.format(id)
RefreshMsg(id) == [kind |-> "refresh", data |-> FormatInt(id)]

NoMsg == [kind |-> "none", data |-> <<>>]

\* Values of lockOwner: refreshLock is free, held by the main thread (a
\* handleSighup frame), or held by connection thread h.
Free == "none"

MainOwns == "main"

Owns(h) == h

\* The test of the inner loop: keep waiting while this holds.
WaitCond(cur, last) == cur <= last

\* The increment without the modulus.
NextIdNoWrap(v) == v + 1

\* refreshId = (refreshId + 1) % REFRESH_ID_MAX
NextId(v) == (v + 1) % REFRESH_ID_MAX

\* The two branches the other way round.
BuildMsgSwapped(timedOut, last) ==
    IF timedOut THEN RefreshMsg(last) ELSE KeepaliveMsg(last)

\* The frame built after the critical section.
BuildMsg(timedOut, last) ==
    IF timedOut THEN KeepaliveMsg(last) ELSE RefreshMsg(last)

\* A dispatch on the start of the path.
RoutePrefix(p) ==
    IF p \in {"/refresh", "/refresh/"} THEN "hdr"
    ELSE IF p = "/" THEN "index"
    ELSE IF p \in {"/file", "/file?v=1"} THEN "file"
    ELSE "notfound"

\* do_GET's dispatch on self.path.
Route(p) ==
    IF p = "/refresh" THEN "hdr"
    ELSE IF p = "/" THEN "index"
    ELSE IF p = "/file" THEN "file"
    ELSE "notfound"

\* What a write to the socket can do: succeed, raise BrokenPipeError, or
\* raise another OSError (ConnectionResetError).
WriteOutcomes(h) == IF peerGone[h] THEN {"pipe", "reset"} ELSE {"ok"}

\* Where the request ends after a write with outcome o that would have
\* continued at pc value next.
AfterWrite(o, next) ==
    IF o = "ok" THEN next ELSE IF o = "pipe" THEN "returned" ELSE "error"

Closed(h) == pc[h] \in {"idle", "returned", "error"}

InWait(h) == pc[h] \in {"parked", "reacq"}

\* h has captured a baseline at least once on this connection.
Captured(h) ==
    \/ pc[h] \in {"test", "wait", "parked", "reacq", "exit", "build", "write"}
    \/ pc[h] \in {"enter", "capture"} /\ lastSent[h].kind \in {"comment", "refresh"}

\* Saturating count.
Bump(n) == IF n < MaxCount THEN n + 1 ELSE n

\* --------------------------------------------------------- initial state

Init ==
    /\ refreshId \in StartIds
    /\ priorAdv = refreshId
    /\ lockOwner = Free
    /\ waiters = {}
    /\ notified = {}
    /\ sigStack = <<>>
    /\ pc = [h \in Handlers |-> "idle"]
    /\ path = [h \in Handlers |-> ""]
    /\ peerGone = [h \in Handlers |-> FALSE]
    /\ lastMsgId = [h \in Handlers |-> 0]
    /\ seenId = [h \in Handlers |-> 0]
    /\ gotit = [h \in Handlers |-> FALSE]
    /\ isTimeout = [h \in Handlers |-> FALSE]
    /\ msg = [h \in Handlers |-> NoMsg]
    /\ lastSent = [h \in Handlers |-> NoMsg]
    /\ lastAdv = [h \in Handlers |-> 0]
    /\ nAdv = 0
    /\ advW = [h \in Handlers |-> 0]
    /\ gap = [h \in Handlers |-> 0]
    /\ absorbed = [h \in Handlers |-> 0]
    /\ firedAt = [h \in Handlers |-> -1]
    /\ pending = [h \in Handlers |-> FALSE]
    /\ credit = [h \in Handlers |-> 0]

\* ------------------------------------------------- main thread: SIGHUP

Top == sigStack[Len(sigStack)]

SetTop(p) == [sigStack EXCEPT ![Len(sigStack)] = p]

\* Frames that have not incremented yet.
Unincremented == Cardinality({i \in 1..Len(sigStack) :
                                 sigStack[i] \in {"acquire", "incr"}})

\* The signal is delivered: a handleSighup frame starts on the main thread,
\* on top of any frame that is already there.
Sighup ==
    /\ nAdv + Unincremented < MaxAdvances
    /\ Len(sigStack) < MaxNest
    /\ sigStack' = Append(sigStack, "acquire")
    /\ UNCHANGED <<refreshId, lockOwner, waiters, notified, pc, path,
                   peerGone, lastMsgId, seenId, gotit, isTimeout, msg>>
    /\ UNCHANGED histVars

\* The same, where the host delivers one signal at a time.
SighupSerial ==
    /\ sigStack = <<>>
    /\ Sighup

\* The signal is delivered while the frame on top is inside its critical
\* section, between the acquire and the release of refreshLock: the new
\* frame starts on top of it, and the frame below does not run until the new
\* one has returned.  (The frame below has its increment done or due, so
\* the new frame is not one MaxAdvances counts.)
SighupInside ==
    /\ sigStack # <<>>
    /\ Top \in {"incr", "notify", "release"}
    /\ Len(sigStack) < MaxNest
    /\ sigStack' = Append(sigStack, "acquire")
    /\ UNCHANGED <<refreshId, lockOwner, waiters, notified, pc, path,
                   peerGone, lastMsgId, seenId, gotit, isTimeout, msg>>
    /\ UNCHANGED histVars

\* with refreshCond: (enter)
SigAcquire ==
    /\ sigStack # <<>>
    /\ Top = "acquire"
    /\ lockOwner = Free
    /\ lockOwner' = MainOwns
    /\ sigStack' = SetTop("incr")
    /\ UNCHANGED <<refreshId, waiters, notified, pc, path, peerGone,
                   lastMsgId, seenId, gotit, isTimeout, msg>>
    /\ UNCHANGED histVars

\* refreshId = (refreshId + 1) % REFRESH_ID_MAX
SigIncrement ==
    /\ sigStack # <<>>
    /\ Top = "incr"
    /\ refreshId' = NextId(refreshId)
    /\ sigStack' = SetTop("notify")
    /\ nAdv' = nAdv + 1
    /\ UNCHANGED <<lockOwner, waiters, notified, pc, path, peerGone,
                   lastMsgId, seenId, gotit, isTimeout, msg>>
    /\ UNCHANGED <<lastSent, lastAdv, priorAdv, advW, gap, absorbed, firedAt,
                   pending, credit>>

\* What notify() would release instead: one waiter.
NotifyOne == IF waiters = {} THEN {} ELSE {CHOOSE h \in waiters : TRUE}

\* The waiters notify_all releases.
NotifySet == waiters

\* refreshCond.notify_all(): every registered waiter is released and
\* taken off the list.  With the increment and the wake-up both done, this
\* is the step at which the history counts the advance.
SigNotify ==
    /\ sigStack # <<>>
    /\ Top = "notify"
    /\ notified' = notified \cup NotifySet
    /\ waiters' = waiters \ NotifySet
    /\ sigStack' = SetTop("release")
    /\ advW' = [h \in Handlers |->
                  IF pc[h] \in {"test", "wait", "parked", "reacq", "exit"}
                  THEN Bump(advW[h]) ELSE advW[h]]
    /\ gap' = [h \in Handlers |->
                 IF pc[h] \in {"build", "write", "enter"} /\ Captured(h)
                 THEN Bump(gap[h]) ELSE gap[h]]
    /\ pending' = [h \in Handlers |-> pending[h] \/ Captured(h)]
    /\ credit' = [h \in Handlers |->
                    IF Captured(h) THEN credit[h] + 1 ELSE credit[h]]
    /\ UNCHANGED <<refreshId, lockOwner, pc, path, peerGone, lastMsgId,
                   seenId, gotit, isTimeout, msg>>
    /\ UNCHANGED <<lastSent, lastAdv, nAdv, priorAdv, absorbed, firedAt>>

\* Leaving the with block, and returning.
SigRelease ==
    /\ sigStack # <<>>
    /\ Top = "release"
    /\ lockOwner' = Free
    /\ sigStack' = SubSeq(sigStack, 1, Len(sigStack) - 1)
    /\ UNCHANGED <<refreshId, waiters, notified, pc, path, peerGone,
                   lastMsgId, seenId, gotit, isTimeout, msg>>
    /\ UNCHANGED histVars

SigStep == SigAcquire \/ SigIncrement \/ SigNotify \/ SigRelease

\* ------------------------------------------------- connection threads

\* A request arrives on a free thread slot.
Connect(h, p) ==
    /\ Closed(h)
    /\ pc' = [pc EXCEPT ![h] = "do_GET"]
    /\ path' = [path EXCEPT ![h] = p]
    /\ UNCHANGED <<refreshId, lockOwner, waiters, notified, sigStack,
                   peerGone, lastMsgId, seenId, gotit, isTimeout, msg>>
    /\ UNCHANGED histVars

\* The client goes away.
Disconnect(h) ==
    /\ ~Closed(h)
    /\ ~peerGone[h]
    /\ peerGone' = [peerGone EXCEPT ![h] = TRUE]
    /\ UNCHANGED <<refreshId, lockOwner, waiters, notified, sigStack, pc,
                   path, lastMsgId, seenId, gotit, isTimeout, msg>>
    /\ UNCHANGED histVars

\* do_GET: dispatch on self.path.
Dispatch(h) ==
    /\ pc[h] = "do_GET"
    /\ pc' = [pc EXCEPT ![h] = Route(path[h])]
    /\ UNCHANGED <<refreshId, lockOwner, waiters, notified, sigStack, path,
                   peerGone, lastMsgId, seenId, gotit, isTimeout, msg>>
    /\ UNCHANGED histVars

\* The request is over when the pc value is that of a closed connection:
\* the handler object and its socket are dropped.
Over(p) == p \in {"returned", "error"}

\* GET /: headers and indexData.
ServeIndex(h) ==
    /\ pc[h] = "index"
    /\ \E o \in WriteOutcomes(h) :
          pc' = [pc EXCEPT ![h] = AfterWrite(o, "returned")]
    /\ path' = [path EXCEPT ![h] = ""]
    /\ peerGone' = [peerGone EXCEPT ![h] = FALSE]
    /\ UNCHANGED <<refreshId, lockOwner, waiters, notified, sigStack,
                   lastMsgId, seenId, gotit, isTimeout, msg>>
    /\ UNCHANGED histVars

\* GET /file: headers, then open() and copyfileobj; open can fail.
ServeFile(h) ==
    /\ pc[h] = "file"
    /\ \E o \in WriteOutcomes(h), opened \in BOOLEAN :
          pc' = [pc EXCEPT ![h] =
                    IF o = "ok" /\ ~opened THEN "error"
                    ELSE AfterWrite(o, "returned")]
    /\ path' = [path EXCEPT ![h] = ""]
    /\ peerGone' = [peerGone EXCEPT ![h] = FALSE]
    /\ UNCHANGED <<refreshId, lockOwner, waiters, notified, sigStack,
                   lastMsgId, seenId, gotit, isTimeout, msg>>
    /\ UNCHANGED histVars

\* Any other path: send_error(NOT_FOUND).
SendNotFound(h) ==
    /\ pc[h] = "notfound"
    /\ \E o \in WriteOutcomes(h) :
          pc' = [pc EXCEPT ![h] = AfterWrite(o, "returned")]
    /\ path' = [path EXCEPT ![h] = ""]
    /\ peerGone' = [peerGone EXCEPT ![h] = FALSE]
    /\ UNCHANGED <<refreshId, lockOwner, waiters, notified, sigStack,
                   lastMsgId, seenId, gotit, isTimeout, msg>>
    /\ UNCHANGED histVars

\* handleRefresh: response headers and the initial frame.
SendInitial(h) ==
    /\ pc[h] = "hdr"
    /\ \E o \in WriteOutcomes(h) :
          /\ pc' = [pc EXCEPT ![h] = AfterWrite(o, "enter")]
          /\ lastSent' = [lastSent EXCEPT ![h] =
                            IF o = "ok" THEN InitialMsg ELSE NoMsg]
          /\ path' = [path EXCEPT ![h] = IF o = "ok" THEN @ ELSE ""]
          /\ peerGone' = [peerGone EXCEPT ![h] = IF o = "ok" THEN @ ELSE FALSE]
    /\ UNCHANGED <<refreshId, lockOwner, waiters, notified, sigStack,
                   lastMsgId, seenId, gotit, isTimeout, msg>>
    /\ UNCHANGED <<lastAdv, nAdv, priorAdv, advW, gap, absorbed, firedAt,
                   pending, credit>>

\* Going on to the capture without taking refreshLock.
EnterNoLock(h) ==
    /\ pc[h] = "enter"
    /\ pc' = [pc EXCEPT ![h] = "capture"]
    /\ UNCHANGED <<refreshId, lockOwner, waiters, notified, sigStack, path,
                   peerGone, lastMsgId, seenId, gotit, isTimeout, msg>>
    /\ UNCHANGED histVars

\* with refreshCond: (enter)
Enter(h) ==
    /\ pc[h] = "enter"
    /\ lockOwner = Free
    /\ lockOwner' = Owns(h)
    /\ pc' = [pc EXCEPT ![h] = "capture"]
    /\ UNCHANGED <<refreshId, waiters, notified, sigStack, path, peerGone,
                   lastMsgId, seenId, gotit, isTimeout, msg>>
    /\ UNCHANGED histVars

\* The capture with lastMsgId shared by the connections instead of local.
CaptureShared(h) ==
    /\ pc[h] = "capture"
    /\ lastMsgId' = [g \in Handlers |-> refreshId]
    /\ advW' = [advW EXCEPT ![h] = 0]
    /\ firedAt' = [firedAt EXCEPT ![h] = -1]
    /\ absorbed' = [absorbed EXCEPT ![h] = gap[h]]
    /\ pc' = [pc EXCEPT ![h] = "test"]
    /\ UNCHANGED <<refreshId, lockOwner, waiters, notified, sigStack, path,
                   peerGone, seenId, gotit, isTimeout, msg>>
    /\ UNCHANGED <<lastSent, lastAdv, nAdv, priorAdv, gap, pending, credit>>

\* lastMsgId = refreshId
Capture(h) ==
    /\ pc[h] = "capture"
    /\ lastMsgId' = [lastMsgId EXCEPT ![h] = refreshId]
    /\ advW' = [advW EXCEPT ![h] = 0]
    /\ firedAt' = [firedAt EXCEPT ![h] = -1]
    /\ absorbed' = [absorbed EXCEPT ![h] = gap[h]]
    /\ pc' = [pc EXCEPT ![h] = "test"]
    /\ UNCHANGED <<refreshId, lockOwner, waiters, notified, sigStack, path,
                   peerGone, seenId, gotit, isTimeout, msg>>
    /\ UNCHANGED <<lastSent, lastAdv, nAdv, priorAdv, gap, pending, credit>>

\* while refreshId <= lastMsgId:
Test(h) ==
    /\ pc[h] = "test"
    /\ seenId' = [seenId EXCEPT ![h] = refreshId]
    /\ pc' = [pc EXCEPT ![h] =
                 IF WaitCond(refreshId, lastMsgId[h]) THEN "wait" ELSE "exit"]
    /\ UNCHANGED <<refreshId, lockOwner, waiters, notified, sigStack, path,
                   peerGone, lastMsgId, gotit, isTimeout, msg>>
    /\ UNCHANGED histVars

\* A wait that parks without releasing refreshLock.
WaitHoldingLock(h) ==
    /\ pc[h] = "wait"
    /\ waiters' = waiters \cup {h}
    /\ notified' = notified \ {h}
    /\ pc' = [pc EXCEPT ![h] = "parked"]
    /\ UNCHANGED <<refreshId, lockOwner, sigStack, path, peerGone, lastMsgId,
                   seenId, gotit, isTimeout, msg>>
    /\ UNCHANGED histVars

\* refreshCond.wait(timeout=60), first part: register a waiter and release
\* the lock.
Wait(h) ==
    /\ pc[h] = "wait"
    /\ waiters' = waiters \cup {h}
    /\ notified' = notified \ {h}
    /\ lockOwner' = Free
    /\ pc' = [pc EXCEPT ![h] = "parked"]
    /\ UNCHANGED <<refreshId, sigStack, path, peerGone, lastMsgId, seenId,
                   gotit, isTimeout, msg>>
    /\ UNCHANGED histVars

\* The waiter was released: the acquire of the waiter returns True.
Wake(h) ==
    /\ pc[h] = "parked"
    /\ h \in notified
    /\ gotit' = [gotit EXCEPT ![h] = TRUE]
    /\ pc' = [pc EXCEPT ![h] = "reacq"]
    /\ UNCHANGED <<refreshId, lockOwner, waiters, notified, sigStack, path,
                   peerGone, lastMsgId, seenId, isTimeout, msg>>
    /\ UNCHANGED histVars

\* What the acquire of the waiter returns when the 60 seconds expire.
TimeoutResult == FALSE

\* The 60 seconds expire first: the acquire of the waiter returns False.
Timeout(h) ==
    /\ pc[h] = "parked"
    /\ h \notin notified
    /\ gotit' = [gotit EXCEPT ![h] = TimeoutResult]
    /\ firedAt' = [firedAt EXCEPT ![h] = advW[h]]
    /\ pc' = [pc EXCEPT ![h] = "reacq"]
    /\ UNCHANGED <<refreshId, lockOwner, waiters, notified, sigStack, path,
                   peerGone, lastMsgId, seenId, isTimeout, msg>>
    /\ UNCHANGED <<lastSent, lastAdv, nAdv, priorAdv, advW, gap, absorbed,
                   pending, credit>>

\* wait(), last part: re-acquire the lock, drop the waiter if it was not
\* released, return; then isTimeout = not <result>, and break if it is set.
\* (gotit is local to wait() and is gone once it returns.)
Reacquire(h) ==
    /\ pc[h] = "reacq"
    /\ lockOwner = Free
    /\ lockOwner' = Owns(h)
    /\ waiters' = IF gotit[h] THEN waiters ELSE waiters \ {h}
    /\ notified' = notified \ {h}
    /\ isTimeout' = [isTimeout EXCEPT ![h] = ~gotit[h]]
    /\ gotit' = [gotit EXCEPT ![h] = FALSE]
    /\ pc' = [pc EXCEPT ![h] = IF gotit[h] THEN "test" ELSE "exit"]
    /\ UNCHANGED <<refreshId, sigStack, path, peerGone, lastMsgId, seenId,
                   msg>>
    /\ UNCHANGED histVars

\* Leaving the with block.
Exit(h) ==
    /\ pc[h] = "exit"
    /\ lockOwner' = Free
    /\ gap' = [gap EXCEPT ![h] = 0]
    /\ pc' = [pc EXCEPT ![h] = "build"]
    /\ UNCHANGED <<refreshId, waiters, notified, sigStack, path, peerGone,
                   lastMsgId, seenId, gotit, isTimeout, msg>>
    /\ UNCHANGED <<lastSent, lastAdv, nAdv, priorAdv, advW, absorbed, firedAt,
                   pending, credit>>

\* if isTimeout: msg = keepalive else: msg = refresh event
Build(h) ==
    /\ pc[h] = "build"
    /\ msg' = [msg EXCEPT ![h] = BuildMsg(isTimeout[h], lastMsgId[h])]
    /\ pc' = [pc EXCEPT ![h] = "write"]
    /\ UNCHANGED <<refreshId, lockOwner, waiters, notified, sigStack, path,
                   peerGone, lastMsgId, seenId, gotit, isTimeout>>
    /\ UNCHANGED histVars

\* self.wfile.write(msg.encode()); self.wfile.flush(); then the next
\* iteration of the outer loop, which assigns every local again before it
\* reads it; when the write raises, the request is over.
Write(h) ==
    /\ pc[h] = "write"
    /\ \E o \in WriteOutcomes(h) :
          /\ pc' = [pc EXCEPT ![h] = AfterWrite(o, "enter")]
          /\ lastSent' = [lastSent EXCEPT ![h] =
                            IF o = "ok" THEN msg[h] ELSE NoMsg]
          /\ lastAdv' = [lastAdv EXCEPT ![h] =
                           IF o = "ok" THEN advW[h] ELSE 0]
          /\ pending' = [pending EXCEPT ![h] =
                           IF o = "ok" /\ msg[h].kind # "refresh"
                           THEN @ ELSE FALSE]
          /\ credit' = [credit EXCEPT ![h] =
                          IF o # "ok" THEN 0
                          ELSE IF msg[h].kind = "refresh" THEN @ - 1 ELSE @]
          /\ gap' = [gap EXCEPT ![h] = IF o = "ok" THEN @ ELSE 0]
          /\ path' = [path EXCEPT ![h] = IF o = "ok" THEN @ ELSE ""]
          /\ peerGone' = [peerGone EXCEPT ![h] = IF o = "ok" THEN @ ELSE FALSE]
    /\ msg' = [msg EXCEPT ![h] = NoMsg]
    /\ lastMsgId' = [lastMsgId EXCEPT ![h] = 0]
    /\ seenId' = [seenId EXCEPT ![h] = 0]
    /\ isTimeout' = [isTimeout EXCEPT ![h] = FALSE]
    /\ advW' = [advW EXCEPT ![h] = 0]
    /\ absorbed' = [absorbed EXCEPT ![h] = 0]
    /\ firedAt' = [firedAt EXCEPT ![h] = -1]
    /\ UNCHANGED <<refreshId, lockOwner, waiters, notified, sigStack, gotit>>
    /\ UNCHANGED <<nAdv, priorAdv>>

\* The steps of a connection thread.
HandlerStep(h) ==
    \/ Dispatch(h) \/ ServeIndex(h) \/ ServeFile(h) \/ SendNotFound(h)
    \/ SendInitial(h) \/ Enter(h) \/ Capture(h) \/ Test(h) \/ Wait(h)
    \/ Wake(h) \/ Timeout(h) \/ Reacquire(h) \/ Exit(h) \/ Build(h)
    \/ Write(h)

\* ---------------------------------------------------------- behaviours

Threads ==
    \/ SigAcquire
    \/ SigIncrement
    \/ SigNotify
    \/ SigRelease
    \/ \E h \in Handlers, p \in Paths : Connect(h, p)
    \/ \E h \in Handlers : Disconnect(h)
    \/ \E h \in Handlers : Dispatch(h)
    \/ \E h \in Handlers : ServeIndex(h)
    \/ \E h \in Handlers : ServeFile(h)
    \/ \E h \in Handlers : SendNotFound(h)
    \/ \E h \in Handlers : SendInitial(h)
    \/ \E h \in Handlers : Enter(h)
    \/ \E h \in Handlers : Capture(h)
    \/ \E h \in Handlers : Test(h)
    \/ \E h \in Handlers : Wait(h)
    \/ \E h \in Handlers : Wake(h)
    \/ \E h \in Handlers : Timeout(h)
    \/ \E h \in Handlers : Reacquire(h)
    \/ \E h \in Handlers : Exit(h)
    \/ \E h \in Handlers : Build(h)
    \/ \E h \in Handlers : Write(h)

Next == Sighup \/ SighupInside \/ Threads

\* Every behaviour of the program: signals arrive at any time.
Spec == Init /\ [][Next]_vars

NextSerial == SighupSerial \/ Threads

\* Signals arrive one at a time, every thread that can run does run, and a
\* thread that keeps asking for the lock gets it; nothing is assumed about
\* when signals, requests and disconnects happen.
FairSpec ==
    /\ Init
    /\ [][NextSerial]_vars
    /\ WF_vars(SigStep)
    /\ \A h \in Handlers : SF_vars(HandlerStep(h))

\* Signals arrive at any time, and every thread, the main thread included,
\* gets the lock when it keeps asking for it while the lock keeps coming
\* free.
FairSpecAnyTime ==
    /\ Init
    /\ [][Next]_vars
    /\ SF_vars(SigStep)
    /\ \A h \in Handlers : SF_vars(HandlerStep(h))

TypeOK ==
    /\ refreshId \in 0..(REFRESH_ID_MAX - 1)
    /\ lockOwner \in {Free, MainOwns} \cup {Owns(h) : h \in Handlers}
    /\ waiters \subseteq Handlers
    /\ notified \subseteq Handlers
    /\ Len(sigStack) <= MaxNest
    /\ \A h \in Handlers :
          pc[h] \in {"idle", "do_GET", "index", "file", "notfound", "hdr",
                     "enter", "capture", "test", "wait", "parked", "reacq",
                     "exit", "build", "write", "returned", "error"}

\* ------------------------------------------------------------- properties

\* The wait of h is over (the critical section was left or is being left)
\* and, since the capture, exactly one increment completed, and it completed
\* before any timeout of the wait expired.
OneAdvanceInWait(h) == advW[h] = 1 /\ firedAt[h] # 0

\* C1: no missed wakeup. For every baseline g, REFRESH_ID_MAX - 1 included:
\* when exactly one advance completes after the capture and before the
\* timeout of the wait expires, the wait ends as not timed out, with a
\* generation other than g, and the frame handed to the socket next is a
\* refresh event, not a keepalive.
C1_NoMissedWakeup ==
    \A h \in Handlers :
       /\ (pc[h] = "exit" /\ OneAdvanceInWait(h))
             => (~isTimeout[h] /\ refreshId # lastMsgId[h])
       /\ (pc[h] = "write" /\ OneAdvanceInWait(h))
             => msg[h].kind = "refresh"

\* C2: the wait condition is "generation equal to baseline": a thread that
\* re-checks the condition goes back to waiting only if refreshId equals
\* lastMsgId; every other value, larger or smaller, ends the wait.
C2_WaitIffEqual ==
    [][\A h \in Handlers :
          (pc[h] = "test" /\ pc'[h] = "wait") => refreshId = lastMsgId[h]]_vars

\* C3: a refresh event carries the new generation, the value of refreshId
\* read when the wait ended, and not the baseline captured before the wait.
C3_RefreshCarriesNewGeneration ==
    \A h \in Handlers :
       (pc[h] = "write" /\ msg[h].kind = "refresh")
          => /\ msg[h].data = FormatInt(seenId[h])
             /\ msg[h].data # FormatInt(lastMsgId[h])

\* C4: when the last frame written was a refresh event that followed a
\* single advance, and the next wait times out with no advance since, the
\* keepalive that follows carries the same id as that refresh event.
C4_KeepaliveRepeatsRefreshId ==
    \A h \in Handlers :
       ( /\ pc[h] = "write"
         /\ msg[h].kind = "comment"
         /\ lastSent[h].kind = "refresh"
         /\ lastAdv[h] = 1
         /\ absorbed[h] = 0
         /\ advW[h] = 0 )
          => msg[h].data = lastSent[h].data

\* C5: on a connection that stays open, every advance that completes after
\* the first capture is eventually followed by a refresh frame written on
\* that connection (pending is set by the advance, and cleared by the
\* refresh frame or by the end of the connection).
C5_EveryAdvanceReported ==
    \A h \in Handlers : pending[h] ~> ~pending[h]

\* h is parked on the baseline it captured, exactly one advance has
\* completed since, and notify_all has released h.
ParkedAndNotifiedOnce(h) ==
    pc[h] = "parked" /\ h \in notified /\ advW[h] = 1

\* h has just written a refresh frame.
WroteRefresh(h) == pc[h] = "enter" /\ lastSent[h].kind = "refresh"

\* C6: every thread parked on the current generation when a single advance
\* happens writes a refresh frame, whatever the other threads do; the
\* obligation ends when its own connection ends or another signal arrives.
C6_AllParkedEmitRefresh ==
    \A h \in Handlers :
       ParkedAndNotifiedOnce(h)
          ~> (WroteRefresh(h) \/ Closed(h) \/ Unincremented > 0)

\* C7: monotonic wake. When an advance is about to return (it has notified
\* and still holds the lock), every thread that was inside the wait when it
\* began is off the waiter list, is released if it is still parked, and will
\* read a generation other than its baseline.
C7_MonotonicWake ==
    (sigStack # <<>> /\ Top = "release")
       => \A h \in Handlers :
             InWait(h) => /\ h \notin waiters
                          /\ pc[h] = "parked" => h \in notified
                          /\ refreshId # lastMsgId[h]

C7_Witness ==
    /\ sigStack # <<>>
    /\ Top = "release"
    /\ \A h \in Handlers : pc[h] = "parked" /\ h \in notified

\* C8: keepalive on idle. When the timeout of the wait expires and no
\* advance completed since the capture, the wait ends as timed out (the
\* thread goes from the wait straight out of the critical section) and the
\* frame handed to the socket next is the keepalive comment carrying the
\* baseline, never a refresh event; after every frame written the thread
\* is back at the top of the loop.
C8_IdleState ==
    \A h \in Handlers :
       firedAt[h] = 0 =>
          /\ pc[h] \in {"reacq", "exit", "build", "write"}
          /\ pc[h] \in {"exit", "build"} => isTimeout[h]
          /\ pc[h] = "write" =>
                /\ msg[h].kind = "comment"
                /\ msg[h].data = FormatInt(lastMsgId[h])

C8_KeepaliveOnIdle ==
    /\ []C8_IdleState
    /\ [][\A h \in Handlers :
             (pc[h] = "write" /\ pc'[h] # "write" /\ ~Over(pc'[h]))
                => pc'[h] = "enter"]_vars

C8_Witness ==
    \E h \in Handlers :
       /\ pc[h] = "write"
       /\ firedAt[h] = 0
       /\ lastSent[h].kind = "comment"
       /\ msg[h] = KeepaliveMsg(refreshId)

\* C9: the counter stays in 0 .. REFRESH_ID_MAX - 1 with REFRESH_ID_MAX =
\* 65536, it is 0 when nothing has advanced it, every completed advance
\* moves it from v to (v + 1) % REFRESH_ID_MAX, nothing else changes it, and
\* it only ever decreases by the step REFRESH_ID_MAX - 1 -> 0.
C9_CounterRange ==
    /\ REFRESH_ID_MAX = 65536
    /\ refreshId \in 0..(REFRESH_ID_MAX - 1)
    /\ refreshId = (priorAdv + nAdv) % REFRESH_ID_MAX

C9_Counter ==
    /\ []C9_CounterRange
    /\ [][ /\ (refreshId' # refreshId \/ nAdv' # nAdv) =>
                /\ sigStack # <<>> /\ Top = "incr"
                /\ nAdv' = nAdv + 1
                /\ refreshId' = (refreshId + 1) % REFRESH_ID_MAX
           /\ refreshId' < refreshId =>
                (refreshId = REFRESH_ID_MAX - 1 /\ refreshId' = 0) ]_vars

C9_Witness ==
    /\ priorAdv = REFRESH_ID_MAX - 1
    /\ nAdv = MaxAdvances
    /\ refreshId = MaxAdvances - 1

\* C10: no duplicated notification. The refresh frames written on a
\* connection never outnumber the advances completed since its first
\* capture; exactly one advance while the thread waits gives exactly one
\* refresh frame; and no refresh frame is built when no advance completed
\* since the baseline.
C10_NoDuplicates ==
    \A h \in Handlers :
       /\ credit[h] >= 0
       /\ (pc[h] = "write" /\ OneAdvanceInWait(h)) =>
             (msg[h].kind = "refresh" /\ credit[h] >= 1)
       /\ (pc[h] = "write" /\ msg[h].kind = "refresh") => advW[h] >= 1

\* The part of C10 that bounds the refresh frames from above.
AtMostOnePerAdvance ==
    \A h \in Handlers :
       /\ credit[h] >= 0
       /\ (pc[h] = "write" /\ msg[h].kind = "refresh") =>
             (advW[h] >= 1 /\ credit[h] >= 1)

\* C6 for every baseline but the last one before the wrap.
ParkedBelowWrapEmitRefresh ==
    \A h \in Handlers :
       (ParkedAndNotifiedOnce(h) /\ lastMsgId[h] # REFRESH_ID_MAX - 1)
          ~> (WroteRefresh(h) \/ Closed(h) \/ Unincremented > 0)

\* C11: peer-gone handling. A write to a client that has gone away, on the
\* event stream (response headers and initial frame, keepalive or refresh
\* frame) or while the file is served, ends the request in the silent
\* normal-return state, never in the error state, and leaves no frame
\* written on the connection.
C11_PeerGoneEndsSilently ==
    [][\A h \in Handlers :
          (peerGone[h] /\ pc[h] \in {"hdr", "write", "file"} /\ pc'[h] # pc[h])
             => (pc'[h] = "returned" /\ lastSent'[h] = NoMsg)]_vars

\* The positions inside handleRefresh.
InStream(h) ==
    pc[h] \in {"hdr", "enter", "capture", "test", "wait", "parked", "reacq",
               "exit", "build", "write"}

\* C12: routing is by exact path. A request is inside handleRefresh only
\* for "/refresh", serves the document only for "/" and the file only for
\* "/file"; with any other path, the recognized ones with a suffix or a
\* query string included, it goes from the dispatch to the not-found
\* response and from there, the client still being there, to the normal
\* return: it is never inside the event-stream loop, never owns the lock
\* under which the counter is read, and the counter stays as it is.
C12_RoutedPositions ==
    \A h \in Handlers :
       /\ InStream(h) => path[h] = "/refresh"
       /\ pc[h] = "index" => path[h] = "/"
       /\ pc[h] = "file" => path[h] = "/file"
       /\ (~Closed(h) /\ path[h] \notin {"/refresh", "/", "/file"}) =>
             /\ pc[h] \in {"do_GET", "notfound"}
             /\ lockOwner # Owns(h)
             /\ h \notin waiters

C12_ExactRouting ==
    /\ []C12_RoutedPositions
    /\ [][\A h \in Handlers :
             /\ (pc[h] = "do_GET" /\ pc'[h] # "do_GET") =>
                   pc'[h] = (CASE path[h] = "/refresh" -> "hdr"
                               [] path[h] = "/" -> "index"
                               [] path[h] = "/file" -> "file"
                               [] OTHER -> "notfound")
             /\ (pc[h] = "notfound" /\ pc'[h] # "notfound") =>
                   /\ refreshId' = refreshId
                   /\ lastMsgId'[h] = lastMsgId[h]
                   /\ ~peerGone[h] => pc'[h] = "returned"]_vars

C12_Witness ==
    \E h, g \in Handlers :
       /\ pc[h] = "notfound" /\ path[h] = "/refresh/"
       /\ pc[g] = "notfound" /\ path[g] = "/file?v=1"

\* The main thread waits for refreshLock while a handleSighup frame below
\* the waiting one holds it: the frame below runs only after the waiting
\* one has returned, so neither ever does.
MainWaitsOnItself ==
    sigStack # <<>> /\ Top = "acquire" /\ lockOwner = MainOwns

\* C13: advance always completes. Every handleSighup frame that has started
\* returns, a frame started while the frame below it is inside its critical
\* section included, so that k triggers leave the counter at (initial + k)
\* mod REFRESH_ID_MAX.
C13_EveryAdvanceReturns ==
    (sigStack # <<>>) ~> (sigStack = <<>>)

\* C14: a keepalive is built only if the generation still equals the
\* baseline when the thread leaves the critical section: a wait that ends
\* as timed out leaves it with refreshId equal to lastMsgId.
C14_KeepaliveOnlyIfUnchanged ==
    \A h \in Handlers :
       (pc[h] = "exit" /\ isTimeout[h]) => refreshId = lastMsgId[h]

\* C14 for the baselines below the wrap (where the loop test is not what
\* sends a woken thread back to the wait): still violated, by the advance
\* that lands between the expiry of the timeout and the re-acquisition.
KeepaliveOnlyIfUnchangedBelowWrap ==
    \A h \in Handlers :
       (pc[h] = "exit" /\ isTimeout[h] /\ lastMsgId[h] # REFRESH_ID_MAX - 1)
          => refreshId = lastMsgId[h]

\* h is suspended: parked in the condition wait, or in a write or flush to
\* the network.
Suspended(h) ==
    pc[h] \in {"parked", "hdr", "write", "index", "file", "notfound"}

\* The positions of a connection thread between the acquire and the
\* release of refreshLock; the thread can take a step at each of them
\* whatever the other threads and the network do.
InCritical(h) == pc[h] \in {"capture", "test", "wait", "exit"}

\* The handleSighup frames between the acquire and the release.
MainInCritical ==
    {i \in 1..Len(sigStack) : sigStack[i] \in {"incr", "notify", "release"}}

\* C15: no connection thread holds refreshLock while it is suspended. A
\* thread that is parked in the wait or writing to the network does not own
\* the lock; a thread that owns it is at a position between acquire and
\* release where it can take a step whatever the others and the network
\* do; and each step it takes as the owner either gives the lock up or
\* moves it on from the capture to the test, or from the test to the wait
\* or the exit, so it gives the lock up within three of its own steps,
\* however many connections are open, slow or gone.
C15_NotHeldWhileSuspended ==
    \A h \in Handlers :
       /\ Suspended(h) => lockOwner # Owns(h)
       /\ lockOwner = Owns(h) => (InCritical(h) /\ ENABLED HandlerStep(h))

C15_LockFreeWhileSuspended ==
    /\ []C15_NotHeldWhileSuspended
    /\ [][\A h \in Handlers :
             (lockOwner = Owns(h) /\ pc'[h] # pc[h]) =>
                \/ lockOwner' = Free
                \/ pc[h] = "capture" /\ pc'[h] = "test"
                \/ pc[h] = "test" /\ pc'[h] \in {"wait", "exit"}]_vars

\* What C15 gives with fairness: a connection that owns the lock gives it
\* up, and a handleSighup frame that waits for a lock no frame below it
\* holds gets it.
HeldLockIsReleased ==
    \A h \in Handlers : (lockOwner = Owns(h)) ~> (lockOwner # Owns(h))

WaitingAdvanceGetsLock ==
    (sigStack # <<>> /\ Top = "acquire" /\ lockOwner # MainOwns)
       ~> (sigStack # <<>> /\ Top = "incr")

C15_Witness ==
    \E h, g \in Handlers :
       /\ pc[h] = "parked" /\ peerGone[h]
       /\ pc[g] = "write"
       /\ sigStack # <<>> /\ Top = "acquire"
       /\ lockOwner = Free

\* C16: lock discipline. A connection thread reads refreshId (the capture
\* and the loop test), and handleSighup writes it, only as the owner of
\* refreshLock, and at most one context is between acquire and release at
\* any time.
C16_OneOwner ==
    /\ \A h \in Handlers : InCritical(h) <=> lockOwner = Owns(h)
    /\ (MainInCritical # {}) <=> lockOwner = MainOwns
    /\ Cardinality({h \in Handlers : InCritical(h)})
          + Cardinality(MainInCritical) <= 1

C16_LockDiscipline ==
    /\ []C16_OneOwner
    /\ [][ /\ refreshId' # refreshId => lockOwner = MainOwns
           /\ \A h \in Handlers :
                 /\ (pc[h] = "capture" /\ pc'[h] # "capture") =>
                       (lockOwner = Owns(h) /\ lastMsgId'[h] = refreshId)
                 /\ (pc[h] = "test" /\ pc'[h] # "test") =>
                       (lockOwner = Owns(h) /\ seenId'[h] = refreshId) ]_vars

C16_Witness ==
    \E h, g \in Handlers :
       /\ pc[h] = "test" /\ lockOwner = Owns(h)
       /\ pc[g] = "reacq"
       /\ sigStack # <<>> /\ Top = "acquire"

\* C17: per-connection containment. A step of a connection thread (every
\* such step moves its pc: connect, dispatch, capture, wait, timeout, frame
\* written, write failure of either kind, end of the request) leaves
\* refreshId as it is and leaves the position, path, baseline, timeout flag
\* and pending frame of every other connection as they are; refreshId
\* changes only in the increment of handleSighup, which moves no
\* connection.
C17_Containment ==
    [][ /\ \A h \in Handlers :
              pc'[h] # pc[h] =>
                 /\ refreshId' = refreshId
                 /\ \A g \in Handlers \ {h} :
                       /\ pc'[g] = pc[g]
                       /\ path'[g] = path[g]
                       /\ lastMsgId'[g] = lastMsgId[g]
                       /\ isTimeout'[g] = isTimeout[g]
                       /\ msg'[g] = msg[g]
                       /\ lastSent'[g] = lastSent[g]
        /\ refreshId' # refreshId =>
              /\ sigStack # <<>> /\ Top = "incr"
              /\ pc' = pc /\ lastMsgId' = lastMsgId /\ msg' = msg ]_vars

C17_Witness ==
    \E h, g \in Handlers :
       /\ pc[h] = "error" /\ lastSent[h] = NoMsg
       /\ pc[g] = "write" /\ msg[g].kind = "refresh"
       /\ refreshId # lastMsgId[g]

\* The positions of the loop of handleRefresh.
InLoop(h) ==
    pc[h] \in {"enter", "capture", "test", "wait", "parked", "reacq", "exit",
               "build", "write"}

\* C18: the first frame. On a /refresh connection nothing is written before
\* the empty data frame; the thread is in the loop (so it captures a
\* baseline and builds a keepalive or a refresh frame) only with that frame
\* written; and the frame is written once: it is written only as the first
\* frame, and no frame built in the loop is a data frame.
C18_FirstFrameState ==
    \A h \in Handlers :
       /\ pc[h] \in {"do_GET", "hdr"} => lastSent[h] = NoMsg
       /\ InLoop(h) => lastSent[h].kind \in {"data", "comment", "refresh"}
       /\ lastSent[h].kind = "data" => lastSent[h].data = <<>>
       /\ pc[h] = "write" => msg[h].kind \in {"comment", "refresh"}

C18_InitialFrameFirst ==
    /\ []C18_FirstFrameState
    /\ [][\A h \in Handlers :
             /\ (lastSent[h] = NoMsg /\ lastSent'[h] # NoMsg) =>
                   /\ pc[h] = "hdr"
                   /\ lastSent'[h] = [kind |-> "data", data |-> <<>>]
             /\ (lastSent[h] # NoMsg /\ lastSent'[h] # lastSent[h]) =>
                   lastSent'[h].kind # "data"
             /\ (pc[h] # "capture" /\ pc'[h] = "capture") =>
                   lastSent[h] # NoMsg ]_vars

C18_Witness ==
    \E h \in Handlers :
       /\ pc[h] = "capture"
       /\ lastSent[h] = [kind |-> "data", data |-> <<>>]
       /\ refreshId = REFRESH_ID_MAX - 1

\* C19: a thread whose client has gone ends its request, with no further
\* advance needed: the wait ends by timeout or notification, the iteration
\* ends with a write, and the write fails.
C19_GoneClientTerminates ==
    \A h \in Handlers : peerGone[h] ~> Closed(h)

====
